---- MODULE Spec2Model ----
(***************************************************************************)
(* NewsFlow-Bot: a Discord bot that fetches RSS feeds per guild (tenant),  *)
(* translates the entries and posts them to a configured channel on a      *)
(* per-guild interval job.  The model follows the variant of the program   *)
(* that has retry and dirty-flag tracking (src/unnamed/part_000).          *)
(*                                                                         *)
(* The specifications:                                                     *)
(*   Spec       the whole program: the configuration store, the commands,  *)
(*              the scheduler, the cycles it triggers and the signals;     *)
(*   SpecLive   Spec with the scheduler's progress (weak fairness);        *)
(*   SpecFetch  the function fetch_and_translate (with the translate calls *)
(*              it makes) applied to a session, a url and a language;      *)
(*   SpecStore  ConfigHandler built over a directory of files, its methods *)
(*              called in any order;                                       *)
(*   SpecFormat the function format_discord_message applied to an article; *)
(*   SpecClean  the function clean_old_entries applied to a record.        *)
(***************************************************************************)
EXTENDS Integers, Sequences, FiniteSets, TLC

VARIABLES
    configs,      \* ConfigHandler.configs: guild id -> config record
    dirty_flags,  \* ConfigHandler.dirty_flags: guild id -> BOOLEAN
    disk,         \* the files of CONFIG_DIR: guild id -> file
    jobs,         \* the scheduler's jobs: guild id -> [period, next]
    started,      \* setup_scheduler has run
    now,          \* the clock, in minutes
    inflight,     \* guild id -> the running instances of the guild's job,
                  \*   each the number of its current attempt (tenacity)
    use_google,   \* TranslatorHandler.use_google
    ncmd,         \* number of commands handled so far
    fc,           \* the fetch_and_translate call in progress (SpecFetch)
    running,      \* the module's global `running`
    fm,           \* the format_discord_message call made (SpecFormat)
    ev            \* the last step taken (observation only)

vars == <<configs, dirty_flags, disk, jobs, started, now, inflight,
          use_google, ncmd, fc, running, fm, ev>>

----------------------------------------------------------------------------
(* Bounds of the model *)

MaxTime == 2          \* the clock stops here
MaxCmds == 2          \* commands handled in one behaviour

Tenants == {1, 2}     \* guild ids
CmdUrls == {"C"}      \* urls given to add_rss / remove_rss
CmdIntervals == {0, 1, 2}
CmdLanguages == {"en", "xx"}
CmdChannels == {7}

----------------------------------------------------------------------------
(* Program constants *)

None == 0                       \* Python's None for channel_id (falsy)
ENTRY_LIFETIME == 10080         \* timedelta(days=7), in minutes
stop_after_attempt == 3         \* every @retry of the program
max_instances == 1              \* add_job passes none: the scheduler's default

\* DEFAULT_RSS_FEEDS: the list of default feed urls (here two of them)
DEFAULT_RSS_FEEDS == <<"A", "B">>

valid_languages ==
    {"bg", "cs", "da", "de", "el", "en", "es", "et", "fi", "fr", "hu", "it",
     "ja", "lt", "lv", "nl", "pl", "pt", "ro", "ru", "sk", "sl", "sv", "zh"}

----------------------------------------------------------------------------
(* ConfigHandler.  A store state st is [configs, dirty_flags, disk]. *)

Store == [configs |-> configs, dirty_flags |-> dirty_flags, disk |-> disk]

create_default_config ==
    [rss_sources       |-> DEFAULT_RSS_FEEDS,
     channel_id        |-> None,
     processed_entries |-> <<>>,
     target_language   |-> "zh",
     interval          |-> 60]

\* a file of CONFIG_DIR: parses says json.load succeeds, keys_ok that every
\* required key is present
validate_config(file) == file.keys_ok

\* (variant: the first file that fails to load ends the load of them all)
load_all_configs_abort_on_error(files) ==
    LET loaded == IF \A g \in DOMAIN files :
                        files[g].parses /\ validate_config(files[g])
                  THEN DOMAIN files ELSE {}
    IN  [configs     |-> [g \in loaded |-> files[g].config],
         dirty_flags |-> [g \in loaded |-> FALSE],
         disk        |-> files]

load_all_configs(files) ==
    LET loaded == {g \in DOMAIN files :
                      files[g].parses /\ validate_config(files[g])}
    IN  [configs     |-> [g \in loaded |-> files[g].config],
         dirty_flags |-> [g \in loaded |-> FALSE],
         disk        |-> files]

\* (variant: the flag is cleared and no file is written)
save_config_no_write(st, guild_id) ==
    IF guild_id \in DOMAIN st.dirty_flags /\ st.dirty_flags[guild_id]
    THEN [st EXCEPT !.dirty_flags = (guild_id :> FALSE) @@ @]
    ELSE st

save_config(st, guild_id) ==
    IF guild_id \in DOMAIN st.dirty_flags /\ st.dirty_flags[guild_id]
    THEN [st EXCEPT
            !.disk = (guild_id :> [parses |-> TRUE, keys_ok |-> TRUE,
                                   config |-> st.configs[guild_id]]) @@ @,
            !.dirty_flags = (guild_id :> FALSE) @@ @]
    ELSE st

get_config(st, guild_id) ==
    IF guild_id \notin DOMAIN st.configs
    THEN [st EXCEPT
            !.configs = (guild_id :> create_default_config) @@ @,
            !.dirty_flags = (guild_id :> TRUE) @@ @]
    ELSE st

InSeq(x, s) == \E i \in 1..Len(s) : s[i] = x

\* list.remove(x): removes the first occurrence
RemoveFirst(s, x) ==
    LET i == CHOOSE k \in 1..Len(s) :
                 s[k] = x /\ \A j \in 1..(k - 1) : s[j] # x
    IN  SubSeq(s, 1, i - 1) \o SubSeq(s, i + 1, Len(s))

\* (variant: the url is appended whether the list holds it or not)
add_rss_source_always_appends(st, guild_id, rss_url) ==
    LET s1 == get_config(st, guild_id) IN
    [st  |-> save_config(
                [s1 EXCEPT
                   !.configs[guild_id].rss_sources = Append(@, rss_url),
                   !.dirty_flags[guild_id] = TRUE],
                guild_id),
     ret |-> TRUE]

add_rss_source(st, guild_id, rss_url) ==
    LET s1 == get_config(st, guild_id) IN
    IF ~InSeq(rss_url, s1.configs[guild_id].rss_sources)
    THEN [st  |-> save_config(
                    [s1 EXCEPT
                       !.configs[guild_id].rss_sources = Append(@, rss_url),
                       !.dirty_flags[guild_id] = TRUE],
                    guild_id),
          ret |-> TRUE]
    ELSE [st |-> s1, ret |-> FALSE]

remove_rss_source(st, guild_id, rss_url) ==
    LET s1 == get_config(st, guild_id) IN
    IF InSeq(rss_url, s1.configs[guild_id].rss_sources)
    THEN [st  |-> save_config(
                    [s1 EXCEPT
                       !.configs[guild_id].rss_sources = RemoveFirst(@, rss_url),
                       !.dirty_flags[guild_id] = TRUE],
                    guild_id),
          ret |-> TRUE]
    ELSE [st |-> s1, ret |-> FALSE]

\* (variant: the channel is set and marked dirty, and not saved)
set_channel_no_save(st, guild_id, channel_id) ==
    LET s1 == get_config(st, guild_id) IN
    [st  |-> [s1 EXCEPT !.configs[guild_id].channel_id = channel_id,
                        !.dirty_flags[guild_id] = TRUE],
     ret |-> TRUE]

ConfigHandler_set_channel(st, guild_id, channel_id) ==
    LET s1 == get_config(st, guild_id) IN
    [st  |-> save_config(
                [s1 EXCEPT !.configs[guild_id].channel_id = channel_id,
                           !.dirty_flags[guild_id] = TRUE],
                guild_id),
     ret |-> TRUE]

get_channel(st, guild_id) == get_config(st, guild_id).configs[guild_id].channel_id

get_rss_sources(st, guild_id) == get_config(st, guild_id).configs[guild_id].rss_sources

set_target_language(st, guild_id, language) ==
    LET s1 == get_config(st, guild_id) IN
    [st  |-> save_config(
                [s1 EXCEPT !.configs[guild_id].target_language = language,
                           !.dirty_flags[guild_id] = TRUE],
                guild_id),
     ret |-> TRUE]

ConfigHandler_set_interval(st, guild_id, interval) ==
    LET s1 == get_config(st, guild_id) IN
    [st  |-> save_config(
                [s1 EXCEPT !.configs[guild_id].interval = interval,
                           !.dirty_flags[guild_id] = TRUE],
                guild_id),
     ret |-> TRUE]

get_interval(st, guild_id) == get_config(st, guild_id).configs[guild_id].interval

----------------------------------------------------------------------------
(* The scheduler (AsyncIOScheduler): the calls the program makes on it. *)

\* scheduler.add_job(..., 'interval', minutes=interval, id=...): the first
\* run is one period after the job is added
add_job(js, guild_id, interval, t) ==
    (guild_id :> [period |-> interval, next |-> t + interval]) @@ js

\* scheduler.reschedule_job(id, trigger='interval', minutes=interval): the
\* job of that id gets a new trigger, whose first run is one period from
\* t; a missing id raises JobLookupError
reschedule_job(js, guild_id, interval, t) ==
    IF guild_id \in DOMAIN js
    THEN [jobs   |-> [js EXCEPT ![guild_id] =
                         [period |-> interval, next |-> t + interval]],
          raised |-> FALSE]
    ELSE [jobs |-> js, raised |-> TRUE]

\* (variant: every due run is submitted, whatever is running)
may_start_always(instances) == TRUE

\* a due job is submitted only when fewer than max_instances of it run
may_start(instances) == instances < max_instances

\* (variant: a job whose run raised is removed)
job_removed_on_failure(js, guild_id, raised) ==
    IF raised THEN [g \in DOMAIN js \ {guild_id} |-> js[g]] ELSE js

\* the jobs once a run of guild_id's job has ended, raised or not: the
\* scheduler logs what the job function raised, and process_and_send_rss
\* makes no call on the scheduler, so the interval job stays as it is
job_after_run(js, guild_id, raised) == js

----------------------------------------------------------------------------
(* The cycle: process_and_send_rss and what it calls before its first await *)

\* Line 5 binds the name datetime to the class datetime.datetime, which has
\* no attribute UTC (UTC is an attribute of the module datetime).
datetime_UTC_defined == FALSE

\* clean_old_entries(config): `now = datetime.now(tz=datetime.UTC)` raises
\* AttributeError before the list is filtered.  Were the attribute defined,
\* the list would be filtered and `config_handler.save_config()`, called
\* without its required guild_id, would raise TypeError.  Either way the
\* function raises; the result gives the exception and the list it leaves.
clean_old_entries(processed_entries, t) ==
    IF ~datetime_UTC_defined
    THEN [raised |-> "AttributeError", processed_entries |-> processed_entries]
    ELSE [raised |-> "TypeError",
          processed_entries |->
              SelectSeq(processed_entries,
                        LAMBDA entry : t - entry.timestamp < ENTRY_LIFETIME)]

\* (variant: the ledger is cleaned before the channel is looked at)
process_and_send_rss_cleans_first(st, guild_id, channel_found, t) ==
    LET s1 == get_config(st, guild_id)
        c == clean_old_entries(s1.configs[guild_id].processed_entries, t)
    IN  [st |-> [s1 EXCEPT !.configs[guild_id].processed_entries =
                               c.processed_entries],
         raised |-> TRUE, cleaned |-> TRUE]

\* One execution of the body of process_and_send_rss.  channel_found is
\* what bot.get_channel(channel_id) gives.  When the channel is found,
\* clean_old_entries raises, so lines 343-363 (fetch, delivery, the final
\* save_config) are not reached; otherwise the function returns at once.
\* cleaned says that clean_old_entries was called.
process_and_send_rss(st, guild_id, channel_found, t) ==
    LET s1 == get_config(st, guild_id)
        channel_id == get_channel(s1, guild_id)
    IN  IF channel_id # None /\ channel_found
        THEN LET c == clean_old_entries(
                          s1.configs[guild_id].processed_entries, t)
             IN  [st |-> [s1 EXCEPT !.configs[guild_id].processed_entries =
                                        c.processed_entries],
                  raised |-> TRUE, cleaned |-> TRUE]
        ELSE [st |-> s1, raised |-> FALSE, cleaned |-> FALSE]

----------------------------------------------------------------------------
(* The command handlers *)

\* (variant: the interval is stored and the job is left as it was)
set_interval_no_reschedule(st, js, guild_id, interval, t) ==
    IF interval <= 0
    THEN [st |-> st, jobs |-> js, ok |-> FALSE, raised |-> FALSE]
    ELSE [st |-> ConfigHandler_set_interval(st, guild_id, interval).st,
          jobs |-> js, ok |-> TRUE, raised |-> FALSE]

\* set_interval(ctx, interval): the body of the command
set_interval(st, js, guild_id, interval, t) ==
    IF interval <= 0
    THEN [st |-> st, jobs |-> js, ok |-> FALSE, raised |-> FALSE]
    ELSE LET r == ConfigHandler_set_interval(st, guild_id, interval)
             j == reschedule_job(js, guild_id, interval, t)
         IN  [st |-> r.st, jobs |-> j.jobs, ok |-> ~j.raised,
              raised |-> j.raised]

\* setup_scheduler(): one job for each guild of bot.guilds
RECURSIVE AddJobs(_, _, _, _)
AddJobs(st, js, guilds, t) ==
    IF guilds = {} THEN [st |-> st, jobs |-> js]
    ELSE LET g == CHOOSE x \in guilds : \A y \in guilds : x <= y
             interval == get_interval(st, g)
         IN  AddJobs(get_config(st, g), add_job(js, g, interval, t),
                     guilds \ {g}, t)

----------------------------------------------------------------------------
(* The files found in CONFIG_DIR when the program starts *)

OldStamp == 0 - (ENTRY_LIFETIME + 1)

FileA ==
    [parses |-> TRUE, keys_ok |-> TRUE,
     config |-> [rss_sources       |-> <<"A", "B">>,
                 channel_id        |-> 7,
                 processed_entries |-> <<[link |-> "l1", timestamp |-> OldStamp]>>,
                 target_language   |-> "zh",
                 interval          |-> 1]]

FileB ==
    [parses |-> TRUE, keys_ok |-> TRUE,
     config |-> [rss_sources       |-> <<"B">>,
                 channel_id        |-> None,
                 processed_entries |-> <<>>,
                 target_language   |-> "en",
                 interval          |-> 2]]

FileBad == [parses |-> TRUE, keys_ok |-> FALSE, config |-> create_default_config]

\* a file that json.load cannot parse
FileGarbage ==
    [parses |-> FALSE, keys_ok |-> FALSE, config |-> create_default_config]

\* a file with every required key, whose interval is 0
FileZero ==
    [parses |-> TRUE, keys_ok |-> TRUE,
     config |-> [rss_sources       |-> <<"B">>,
                 channel_id        |-> None,
                 processed_entries |-> <<>>,
                 target_language   |-> "en",
                 interval          |-> 0]]

\* what CONFIG_DIR may hold for each guild at the start (besides no file)
InitFiles(t) == IF t = 1 THEN {FileA, FileBad} ELSE {FileB}

\* the same for SpecStore, which starts no job and takes in the files
\* that fail to load or hold an interval no command would store
StoreFiles(t) == IF t = 1 THEN {FileA, FileBad, FileGarbage}
                 ELSE {FileB, FileZero}

\* ev, the last step: its kind, the guild t, a number n and a string s (the
\* argument of a command, the attempt of a run, the provider invoked) and
\* ok: the command's success, whether a trigger started a run, whether a
\* run called clean_old_entries, whether a provider call succeeded
NoEvent == [kind |-> "init", t |-> 0, n |-> 0, s |-> "", ok |-> TRUE]
Event(kind, t, n, s, ok) == [kind |-> kind, t |-> t, n |-> n, s |-> s, ok |-> ok]

\* no translate request yet / no response yet / no call yet
NoTr == [attempt |-> 0, start |-> TRUE, calls |-> <<>>]
NoPrev == [failed |-> FALSE, start |-> TRUE, caller |-> 0]
NoResp == [status_ok |-> TRUE, parse_ok |-> TRUE, entries |-> <<>>]
IdleFetch ==
    [pc |-> "idle", caller |-> 0, url |-> "", attempt |-> 0, gets |-> <<>>,
     resp |-> NoResp, idx |-> 0, acc |-> <<>>, out |-> <<>>,
     result |-> "none", cause |-> "", tr |-> NoTr, prev |-> NoPrev]

\* no format_discord_message call yet
NoFormat == [pc |-> "idle", summary |-> <<>>, value |-> <<>>]

\* the program after the module is loaded: ConfigHandler() has read the
\* files, TranslatorHandler() has set use_google, no job exists yet
Init ==
    /\ \E present \in SUBSET Tenants :
         \E files \in {f \in [present -> {FileA, FileB, FileBad}] :
                          \A t \in present : f[t] \in InitFiles(t)} :
            LET st == load_all_configs(files)
            IN  /\ configs = st.configs
                /\ dirty_flags = st.dirty_flags
                /\ disk = st.disk
    /\ jobs = <<>>
    /\ started = FALSE
    /\ now = 0
    /\ inflight = [t \in Tenants |-> <<>>]
    /\ use_google = TRUE
    /\ ncmd = 0
    /\ fc = IdleFetch
    /\ running = TRUE
    /\ fm = NoFormat
    /\ ev = NoEvent

SetStore(st) ==
    /\ configs' = st.configs
    /\ dirty_flags' = st.dirty_flags
    /\ disk' = st.disk

\* run_bot(): setup_scheduler() over the guilds bot.guilds holds then
SetupScheduler(guilds) ==
    /\ ~started
    /\ LET r == AddJobs(Store, jobs, guilds, now)
       IN  /\ SetStore(r.st)
           /\ jobs' = r.jobs
    /\ started' = TRUE
    /\ ev' = Event("setup_scheduler", 0, Cardinality(guilds), "", TRUE)
    /\ UNCHANGED <<now, inflight, use_google, ncmd, fc, running, fm>>

Command == started /\ ncmd < MaxCmds /\ ncmd' = ncmd + 1

AddRss(t, rss_url) ==
    /\ Command
    /\ LET r == add_rss_source(Store, t, rss_url)
       IN  /\ SetStore(r.st)
           /\ ev' = Event("add_rss", t, 0, rss_url, r.ret)
    /\ UNCHANGED <<jobs, started, now, inflight, use_google, fc, running, fm>>

RemoveRss(t, rss_url) ==
    /\ Command
    /\ LET r == remove_rss_source(Store, t, rss_url)
       IN  /\ SetStore(r.st)
           /\ ev' = Event("remove_rss", t, 0, rss_url, r.ret)
    /\ UNCHANGED <<jobs, started, now, inflight, use_google, fc, running, fm>>

SetChannel(t, channel_id) ==
    /\ Command
    /\ LET r == ConfigHandler_set_channel(Store, t, channel_id)
       IN  /\ SetStore(r.st)
           /\ ev' = Event("set_channel", t, channel_id, "", r.ret)
    /\ UNCHANGED <<jobs, started, now, inflight, use_google, fc, running, fm>>

ListRss(t) ==
    /\ Command
    /\ SetStore(get_config(Store, t))
    /\ ev' = Event("list_rss", t, Len(get_rss_sources(Store, t)), "", TRUE)
    /\ UNCHANGED <<jobs, started, now, inflight, use_google, fc, running, fm>>

SetLanguage(t, language) ==
    /\ Command
    /\ IF language \notin valid_languages
       THEN /\ UNCHANGED <<configs, dirty_flags, disk>>
            /\ ev' = Event("set_language", t, 0, language, FALSE)
       ELSE /\ SetStore(set_target_language(Store, t, language).st)
            /\ ev' = Event("set_language", t, 0, language, TRUE)
    /\ UNCHANGED <<jobs, started, now, inflight, use_google, fc, running, fm>>

SetInterval(t, interval) ==
    /\ Command
    /\ LET r == set_interval(Store, jobs, t, interval, now)
       IN  /\ SetStore(r.st)
           /\ jobs' = r.jobs
           /\ ev' = Event("set_interval", t, interval, "", r.ok)
    /\ UNCHANGED <<started, now, inflight, use_google, fc, running, fm>>

\* the scheduler's clock: a minute passes when no job is due
Tick ==
    /\ started
    /\ now < MaxTime
    /\ \A t \in DOMAIN jobs : jobs[t].next > now
    /\ now' = now + 1
    /\ ev' = Event("tick", 0, now + 1, "", TRUE)
    /\ UNCHANGED <<configs, dirty_flags, disk, jobs, started, inflight,
                   use_google, ncmd, fc, running, fm>>

\* the job of guild t is due: its next run is set one period on, and
\* process_and_send_rss(t) is submitted unless max_instances of it run
Trigger(t) ==
    /\ started
    /\ t \in DOMAIN jobs
    /\ jobs[t].next <= now
    /\ jobs' = [jobs EXCEPT ![t].next = @ + jobs[t].period]
    /\ IF may_start(Len(inflight[t]))
       THEN /\ inflight' = [inflight EXCEPT ![t] = Append(@, 1)]
            /\ ev' = Event("trigger", t, now, "", TRUE)
       ELSE /\ inflight' = inflight
            /\ ev' = Event("trigger", t, now, "", FALSE)
    /\ UNCHANGED <<configs, dirty_flags, disk, started, now, use_google,
                   ncmd, fc, running, fm>>

RemoveAt(s, i) == SubSeq(s, 1, i - 1) \o SubSeq(s, i + 1, Len(s))

\* instance i of guild t's job executes process_and_send_rss once; its
\* @retry runs it again after a failure, stop_after_attempt times in all
RunAttempt(t, i, channel_found) ==
    /\ i \in 1..Len(inflight[t])
    /\ LET r == process_and_send_rss(Store, t, channel_found, now)
           a == inflight[t][i]
           again == r.raised /\ a < stop_after_attempt
       IN  /\ SetStore(r.st)
           /\ inflight' = [inflight EXCEPT ![t] =
                              IF again THEN [@ EXCEPT ![i] = a + 1]
                              ELSE RemoveAt(@, i)]
           /\ ev' = Event(IF again THEN "attempt_failed"
                          ELSE IF r.raised THEN "cycle_failed"
                          ELSE "cycle_returned",
                          t, a, "", r.cleaned)
           /\ jobs' = job_after_run(jobs, t, r.raised /\ ~again)
    /\ UNCHANGED <<started, now, use_google, ncmd, fc, running, fm>>

\* SIGINT or SIGTERM is delivered: signal_handler() clears the global
\* `running`.  Nothing in the program reads it.
Signal ==
    /\ running' = FALSE
    /\ ev' = Event("signal", 0, 0, "", TRUE)
    /\ UNCHANGED <<configs, dirty_flags, disk, jobs, started, now, inflight,
                   use_google, ncmd, fc, fm>>

Next ==
    \/ \E guilds \in SUBSET Tenants : SetupScheduler(guilds)
    \/ \E t \in Tenants, u \in CmdUrls : AddRss(t, u)
    \/ \E t \in Tenants, u \in CmdUrls : RemoveRss(t, u)
    \/ \E t \in Tenants, c \in CmdChannels : SetChannel(t, c)
    \/ \E t \in Tenants : ListRss(t)
    \/ \E t \in Tenants, l \in CmdLanguages : SetLanguage(t, l)
    \/ \E t \in Tenants, m \in CmdIntervals : SetInterval(t, m)
    \/ Tick
    \/ \E t \in Tenants : Trigger(t)
    \/ \E t \in Tenants, f \in BOOLEAN :
          \E i \in 1..Len(inflight[t]) : RunAttempt(t, i, f)
    \/ Signal

Spec == Init /\ [][Next]_vars

\* Spec with the scheduler's progress: the clock advances, a due job is
\* triggered, and a submitted run (with its retries) is executed
SpecLive ==
    /\ Spec
    /\ WF_vars(Tick)
    /\ \A t \in Tenants : WF_vars(Trigger(t))
    /\ \A t \in Tenants :
          WF_vars(\E f \in BOOLEAN :
                    \E i \in 1..Len(inflight[t]) : RunAttempt(t, i, f))

----------------------------------------------------------------------------
(* fetch_and_translate and TranslatorHandler.translate                     *)
(*                                                                         *)
(* fc is one call of fetch_and_translate(session, url, target_language):   *)
(*   pc       where the call is: "get" (session.get), "body" (the try      *)
(*            block up to the parse), "entry" (the loop head), "title" /   *)
(*            "summary" (the translate request in progress), "done"        *)
(*   attempt  the attempt of the call's @retry                             *)
(*   gets     what session.get did on each attempt so far                  *)
(*   resp     the response of the current attempt                          *)
(*   idx      the index of the current entry of feed.entries               *)
(*   acc      translated_entries (the links of the entries appended)       *)
(*   result   "entries" (a list was returned, out) or "RetryError"         *)
(*   out      the list returned                                            *)
(*   cause    what made the except clause return [], if it did             *)
(*   tr       the translate request in progress: its attempt, the flag     *)
(*            when it started, the providers invoked so far                *)
(*   prev     the last translate request that ended                        *)
(* translate is synchronous (its retry waits with time.sleep), so calls of *)
(* different guilds interleave only at the awaits of fetch_and_translate,  *)
(* where use_google is not touched: the calls are taken one after another. *)
(***************************************************************************)

MaxEntries == 2       \* entries in one feed

E1 == [link |-> "l1", has_title |-> TRUE, has_link |-> TRUE]
E2 == [link |-> "l2", has_title |-> TRUE, has_link |-> TRUE]
NoTitle == [link |-> "l3", has_title |-> FALSE, has_link |-> TRUE]
NoLink == [link |-> "", has_title |-> TRUE, has_link |-> FALSE]
RawEntries == {E1, E2, NoTitle, NoLink}

FeedContents == UNION {[1..n -> RawEntries] : n \in 0..MaxEntries}

Responses ==
    {[status_ok |-> FALSE, parse_ok |-> TRUE, entries |-> <<>>],
     [status_ok |-> TRUE, parse_ok |-> FALSE, entries |-> <<>>]}
    \cup {[status_ok |-> TRUE, parse_ok |-> TRUE, entries |-> c] :
             c \in FeedContents}

FetchUrls == {"A", "B"}

\* (variant: a failure raises and leaves the flag as it was)
translate_keeps_flag(flag, ok) ==
    [provider |-> IF flag THEN "google" ELSE "deepl", raised |-> ~ok,
     use_google |-> flag]

\* (variant: a DeepL failure leaves the flag on DeepL)
translate_no_switch_back(flag, ok) ==
    IF flag
    THEN IF ok
         THEN [provider |-> "google", raised |-> FALSE, use_google |-> flag]
         ELSE [provider |-> "google", raised |-> TRUE, use_google |-> FALSE]
    ELSE [provider |-> "deepl", raised |-> ~ok, use_google |-> flag]

\* one execution of the body of translate(text, target_language) with the
\* flag as given; ok says whether the provider invoked succeeds
translate(flag, ok) ==
    IF flag
    THEN IF ok
         THEN [provider |-> "google", raised |-> FALSE, use_google |-> flag]
         ELSE [provider |-> "google", raised |-> TRUE, use_google |-> FALSE]
    ELSE IF ok
         THEN [provider |-> "deepl", raised |-> FALSE, use_google |-> flag]
         ELSE [provider |-> "deepl", raised |-> TRUE, use_google |-> TRUE]

\* the except clause of fetch_and_translate: log and return []
ReturnEmpty(c, why) ==
    [c EXCEPT !.pc = "done", !.result = "entries", !.out = <<>>,
              !.cause = why]

InitFetch ==
    /\ configs = <<>>
    /\ dirty_flags = <<>>
    /\ disk = <<>>
    /\ jobs = <<>>
    /\ started = FALSE
    /\ now = 0
    /\ inflight = [t \in Tenants |-> <<>>]
    /\ use_google = TRUE
    /\ ncmd = 0
    /\ fc = IdleFetch
    /\ running = TRUE
    /\ fm = NoFormat
    /\ ev = NoEvent

FetchFrame == UNCHANGED <<configs, dirty_flags, disk, jobs, started, now,
                          inflight, ncmd, running, fm>>

\* a task of line 348 starts: fetch_and_translate(session, url, language)
FetchCall(t, url) ==
    /\ fc.pc \in {"idle", "done"}
    /\ fc' = [IdleFetch EXCEPT !.pc = "get", !.caller = t, !.url = url,
                               !.attempt = 1, !.prev = fc.prev]
    /\ ev' = Event("fetch_call", t, 0, url, TRUE)
    /\ UNCHANGED use_google
    /\ FetchFrame

\* session.get(url) raises (connection failure, timeout): the exception
\* leaves the function, and its @retry calls it again or gives up
SessionGetRaises ==
    /\ fc.pc = "get"
    /\ fc' = IF fc.attempt < stop_after_attempt
             THEN [fc EXCEPT !.gets = Append(@, "raise"),
                             !.attempt = @ + 1]
             ELSE [fc EXCEPT !.gets = Append(@, "raise"),
                             !.pc = "done", !.result = "RetryError"]
    /\ ev' = Event("get_raises", fc.caller, fc.attempt, fc.url, FALSE)
    /\ UNCHANGED use_google
    /\ FetchFrame

\* session.get(url) gives a response
SessionGetResponds(resp) ==
    /\ fc.pc = "get"
    /\ fc' = [fc EXCEPT !.gets = Append(@, "response"), !.resp = resp,
                        !.pc = "body"]
    /\ ev' = Event("get_responds", fc.caller, fc.attempt, fc.url, TRUE)
    /\ UNCHANGED use_google
    /\ FetchFrame

\* lines 309-312: raise_for_status, text, parse; a failure of any of them
\* is caught by the except clause
ReadBody ==
    /\ fc.pc = "body"
    /\ fc' = IF ~fc.resp.status_ok THEN ReturnEmpty(fc, "http")
             ELSE IF ~fc.resp.parse_ok THEN ReturnEmpty(fc, "parse")
             ELSE [fc EXCEPT !.pc = "entry", !.idx = 1]
    /\ ev' = Event("read_body", fc.caller, fc.attempt, fc.url,
                   fc.resp.status_ok /\ fc.resp.parse_ok)
    /\ UNCHANGED use_google
    /\ FetchFrame

\* the head of the loop over feed.entries: the end of the list returns
\* translated_entries; entry.title of an entry without a title raises
\* AttributeError; otherwise translate(entry.title, ...) is called
NextEntry ==
    /\ fc.pc = "entry"
    /\ fc' = IF fc.idx > Len(fc.resp.entries)
             THEN [fc EXCEPT !.pc = "done", !.result = "entries",
                             !.out = fc.acc]
             ELSE IF ~fc.resp.entries[fc.idx].has_title
             THEN ReturnEmpty(fc, "title")
             ELSE [fc EXCEPT !.pc = "title",
                             !.tr = [attempt |-> 1, start |-> use_google,
                                     calls |-> <<>>]]
    /\ ev' = Event("next_entry", fc.caller, fc.idx, fc.url, TRUE)
    /\ UNCHANGED use_google
    /\ FetchFrame

\* one attempt of the translate request in progress.  A failed attempt is
\* retried by translate's @retry; the third failure raises RetryError,
\* which the except clause of fetch_and_translate catches.  After the
\* summary is translated the entry is appended (entry.link of an entry
\* without a link raises AttributeError).
TranslateAttempt(ok) ==
    /\ fc.pc \in {"title", "summary"}
    /\ LET r == translate(use_google, ok)
           calls == Append(fc.tr.calls, r.provider)
           ended(failed) == [failed |-> failed, start |-> fc.tr.start,
                             caller |-> fc.caller]
           entry == fc.resp.entries[fc.idx]
       IN  /\ use_google' = r.use_google
           /\ fc' =
                IF r.raised
                THEN IF fc.tr.attempt < stop_after_attempt
                     THEN [fc EXCEPT !.tr.attempt = @ + 1, !.tr.calls = calls]
                     ELSE [ReturnEmpty(fc, "translate") EXCEPT
                              !.tr.calls = calls, !.prev = ended(TRUE)]
                ELSE IF fc.pc = "title"
                THEN [fc EXCEPT !.pc = "summary", !.prev = ended(FALSE),
                                !.tr = [attempt |-> 1, start |-> r.use_google,
                                        calls |-> <<>>]]
                ELSE IF ~entry.has_link
                THEN [ReturnEmpty(fc, "link") EXCEPT
                         !.tr = NoTr, !.prev = ended(FALSE)]
                ELSE [fc EXCEPT !.pc = "entry", !.idx = @ + 1,
                                !.acc = Append(@, entry.link),
                                !.tr = NoTr, !.prev = ended(FALSE)]
           /\ ev' = Event(IF r.raised /\ fc.tr.attempt = stop_after_attempt
                          THEN "translate_failed"
                          ELSE IF r.raised THEN "translate_retry"
                          ELSE "translate_ok",
                          fc.caller, fc.tr.attempt, r.provider, ~r.raised)
    /\ FetchFrame

NextFetch ==
    \/ \E t \in Tenants, u \in FetchUrls : FetchCall(t, u)
    \/ SessionGetRaises
    \/ \E resp \in Responses : SessionGetResponds(resp)
    \/ ReadBody
    \/ NextEntry
    \/ \E ok \in BOOLEAN : TranslateAttempt(ok)

SpecFetch == InitFetch /\ [][NextFetch]_vars

----------------------------------------------------------------------------
(* SpecStore: ConfigHandler() is constructed over the files of CONFIG_DIR  *)
(* and its methods are called in any order, with the arguments the command *)
(* handlers pass.                                                          *)

StoreUrls == {"A", "C"}     \* a default url and another one
StoreLanguages == {"en"}    \* set_language passes a valid language only
StoreIntervals == {2}       \* set_interval passes a positive interval only

InitStore ==
    /\ \E present \in SUBSET Tenants :
         \E files \in {f \in [present -> {FileA, FileB, FileBad, FileGarbage,
                                          FileZero}] :
                          \A t \in present : f[t] \in StoreFiles(t)} :
            LET st == load_all_configs(files)
            IN  /\ configs = st.configs
                /\ dirty_flags = st.dirty_flags
                /\ disk = st.disk
    /\ jobs = <<>>
    /\ started = FALSE
    /\ now = 0
    /\ inflight = [t \in Tenants |-> <<>>]
    /\ use_google = TRUE
    /\ ncmd = 0
    /\ fc = IdleFetch
    /\ running = TRUE
    /\ fm = NoFormat
    /\ ev = NoEvent

StoreFrame == UNCHANGED <<jobs, started, now, inflight, use_google, ncmd, fc,
                          running, fm>>

StoreGetConfig(t) ==
    /\ SetStore(get_config(Store, t))
    /\ ev' = Event("get_config", t, 0, "", TRUE)
    /\ StoreFrame

StoreAddRssSource(t, rss_url) ==
    /\ LET r == add_rss_source(Store, t, rss_url)
       IN  /\ SetStore(r.st)
           /\ ev' = Event("add_rss_source", t, 0, rss_url, r.ret)
    /\ StoreFrame

StoreRemoveRssSource(t, rss_url) ==
    /\ LET r == remove_rss_source(Store, t, rss_url)
       IN  /\ SetStore(r.st)
           /\ ev' = Event("remove_rss_source", t, 0, rss_url, r.ret)
    /\ StoreFrame

StoreSetChannel(t, channel_id) ==
    /\ LET r == ConfigHandler_set_channel(Store, t, channel_id)
       IN  /\ SetStore(r.st)
           /\ ev' = Event("ConfigHandler.set_channel", t, channel_id, "", r.ret)
    /\ StoreFrame

StoreSetTargetLanguage(t, language) ==
    /\ LET r == set_target_language(Store, t, language)
       IN  /\ SetStore(r.st)
           /\ ev' = Event("set_target_language", t, 0, language, r.ret)
    /\ StoreFrame

StoreSetInterval(t, interval) ==
    /\ LET r == ConfigHandler_set_interval(Store, t, interval)
       IN  /\ SetStore(r.st)
           /\ ev' = Event("ConfigHandler.set_interval", t, interval, "", r.ret)
    /\ StoreFrame

NextStore ==
    \/ \E t \in Tenants : StoreGetConfig(t)
    \/ \E t \in Tenants, u \in StoreUrls : StoreAddRssSource(t, u)
    \/ \E t \in Tenants, u \in StoreUrls : StoreRemoveRssSource(t, u)
    \/ \E t \in Tenants, c \in CmdChannels : StoreSetChannel(t, c)
    \/ \E t \in Tenants, l \in StoreLanguages : StoreSetTargetLanguage(t, l)
    \/ \E t \in Tenants, m \in StoreIntervals : StoreSetInterval(t, m)

SpecStore == InitStore /\ [][NextStore]_vars

----------------------------------------------------------------------------
(* SpecFormat: format_discord_message applied to an article.  A string is  *)
(* the sequence of its characters.                                         *)

MaxSummary == 1200       \* the longest summary formatted

\* a summary of n characters
Text(n, k) == [i \in 1..n |-> IF i % k = 0 THEN "." ELSE "x"]

\* (variant: the summary is cut at the limit and the dots are added to it)
format_discord_message_cut_at_limit(article) ==
    LET translated_summary == article.summary
    IN  IF Len(translated_summary) > 1024
        THEN SubSeq(translated_summary, 1, 1024) \o <<".", ".", ".">>
        ELSE translated_summary

\* format_discord_message(article, ...): the summary put in the field
\* "Details" of the embed.  It is read from article['summary'], over the
\* parameter translated_summary; the caller passes that same value.
format_discord_message(article) ==
    LET translated_summary == article.summary
    IN  IF Len(translated_summary) > 1024
        THEN SubSeq(translated_summary, 1, 1021) \o <<".", ".", ".">>
        ELSE translated_summary

InitFormat ==
    /\ configs = <<>>
    /\ dirty_flags = <<>>
    /\ disk = <<>>
    /\ jobs = <<>>
    /\ started = FALSE
    /\ now = 0
    /\ inflight = [t \in Tenants |-> <<>>]
    /\ use_google = TRUE
    /\ ncmd = 0
    /\ fc = IdleFetch
    /\ running = TRUE
    /\ fm = NoFormat
    /\ ev = NoEvent

Format(n, k) ==
    /\ fm.pc = "idle"
    /\ LET article == [summary |-> Text(n, k)]
       IN  fm' = [pc |-> "done", summary |-> article.summary,
                  value |-> format_discord_message(article)]
    /\ ev' = Event("format_discord_message", 0, n, "", TRUE)
    /\ UNCHANGED <<configs, dirty_flags, disk, jobs, started, now, inflight,
                   use_google, ncmd, fc, running>>

NextFormat == \E n \in 0..MaxSummary, k \in {2, 3} : Format(n, k)

SpecFormat == InitFormat /\ [][NextFormat]_vars

----------------------------------------------------------------------------
(* SpecClean: clean_old_entries applied to the record of a guild, in the   *)
(* two variants of the program.                                            *)

MaxLedger == 3           \* records in a ledger

\* ledger records one minute younger than ENTRY_LIFETIME, exactly that old,
\* and one minute older (the clock is at 0)
LedgerRecords ==
    {[link |-> l, timestamp |-> 0 - age] :
        l \in {"l1", "l2"},
        age \in {ENTRY_LIFETIME - 1, ENTRY_LIFETIME, ENTRY_LIFETIME + 1}}

Ledgers == UNION {[1..n -> LedgerRecords] : n \in 0..MaxLedger}

\* clean_old_entries of full_rss_DiscordBot.py: the list is filtered with
\* datetime.utcnow(), and nothing is saved
simple_clean_old_entries(processed_entries, t) ==
    SelectSeq(processed_entries,
              LAMBDA entry : t - entry.timestamp < ENTRY_LIFETIME)

InitClean ==
    /\ \E l \in Ledgers :
          configs = (1 :> [create_default_config EXCEPT
                              !.channel_id = 7, !.processed_entries = l])
    /\ dirty_flags = (1 :> FALSE)
    /\ disk = <<>>
    /\ jobs = <<>>
    /\ started = FALSE
    /\ now = 0
    /\ inflight = [t \in Tenants |-> <<>>]
    /\ use_google = TRUE
    /\ ncmd = 0
    /\ fc = IdleFetch
    /\ running = TRUE
    /\ fm = NoFormat
    /\ ev = NoEvent

CleanFrame == UNCHANGED <<dirty_flags, disk, jobs, started, now, inflight,
                          use_google, ncmd, fc, running, fm>>

\* clean_old_entries(config) of part_000: ev.s is what it raised
CleanOldEntries(t) ==
    /\ LET c == clean_old_entries(configs[t].processed_entries, now)
       IN  /\ configs' = [configs EXCEPT ![t].processed_entries =
                                             c.processed_entries]
           /\ ev' = Event("clean_old_entries", t, 0, c.raised, FALSE)
    /\ CleanFrame

\* clean_old_entries(config) of full_rss_DiscordBot.py
SimpleCleanOldEntries(t) ==
    /\ configs' = [configs EXCEPT ![t].processed_entries =
                      simple_clean_old_entries(@, now)]
    /\ ev' = Event("simple_clean_old_entries", t, 0, "", TRUE)
    /\ CleanFrame

NextClean ==
    \/ \E t \in DOMAIN configs : CleanOldEntries(t)
    \/ \E t \in DOMAIN configs : SimpleCleanOldEntries(t)

SpecClean == InitClean /\ [][NextClean]_vars

----------------------------------------------------------------------------
(* Properties *)

Provider(flag) == IF flag THEN "google" ELSE "deepl"
Age(entry) == now - entry.timestamp

\* C2 (SpecFetch): a feed whose request raises on all three attempts
\* contributes the empty list to the cycle (it does not raise into
\* asyncio.gather).
C2_FailedFeedContributesEmptyList ==
    (fc.pc = "done" /\ fc.gets = <<"raise", "raise", "raise">>)
        => (fc.result = "entries" /\ fc.out = <<>>)

\* C4 (Spec): at most one instance of a guild's job is in flight in every
\* state, and a trigger of the job that fires while an instance is in
\* flight is dropped: it starts nothing and leaves the instance as it is.
C4_NoOverlap ==
    [][\A t \in Tenants :
          /\ Len(inflight'[t]) <= 1
          /\ (ev'.kind = "trigger" /\ ev'.t = t /\ Len(inflight[t]) >= 1)
               => (inflight'[t] = inflight[t] /\ ~ev'.ok)]_vars

\* a trigger was dropped while the guild's cycle was in flight
C4_Witness ==
    /\ ev.kind = "trigger"
    /\ ~ev.ok
    /\ Len(inflight[ev.t]) = 1

\* C5 (SpecFetch): when a translate request that started with provider P
\* active fails (three failed attempts), the flag designates the other
\* provider; the next translate request, of whatever guild, starts with the
\* flag so and invokes that other provider first.
C5_FailoverPersists ==
    /\ ev.kind = "translate_failed" => use_google = ~fc.prev.start
    /\ (fc.pc \in {"title", "summary"} /\ fc.prev.failed)
         => /\ fc.tr.start = ~fc.prev.start
            /\ fc.tr.calls # <<>> => fc.tr.calls[1] = Provider(~fc.prev.start)

\* a request that started on DeepL failed, and the next request, made for
\* another guild, has invoked Google first
C5_Witness ==
    /\ fc.pc = "title"
    /\ fc.prev.failed
    /\ ~fc.prev.start
    /\ fc.prev.caller # fc.caller
    /\ fc.tr.calls = <<"google">>

\* C6 (Spec): once a cycle has run its pruning pass, the guild's ledger
\* holds no record older than ENTRY_LIFETIME.
C6_OldRecordPruned ==
    \A t \in Tenants :
       (ev.t = t /\ ev.ok
        /\ ev.kind \in {"attempt_failed", "cycle_failed", "cycle_returned"})
         => \A i \in 1..Len(configs[t].processed_entries) :
               Age(configs[t].processed_entries[i]) <= ENTRY_LIFETIME

\* C7 (Spec): set_interval(m), m > 0, on a guild that has a job gives that
\* job the period m with its next run m minutes from now, and leaves every
\* other job as it was.
C7_SetIntervalReschedules ==
    [][\A t \in Tenants :
          (ev'.kind = "set_interval" /\ ev'.t = t /\ ev'.n > 0
           /\ t \in DOMAIN jobs)
            => /\ DOMAIN jobs' = DOMAIN jobs
               /\ jobs'[t] = [period |-> ev'.n, next |-> now + ev'.n]
               /\ \A u \in DOMAIN jobs \ {t} : jobs'[u] = jobs[u]]_vars

\* mid-period (a minute after the jobs were added) a guild's interval was
\* changed to a new period; its next run is that period away, and the
\* other guild has a job too
C7_Witness ==
    /\ ev.kind = "set_interval"
    /\ ev.n > 0
    /\ now > 0
    /\ DOMAIN jobs = Tenants
    /\ jobs[ev.t] = [period |-> ev.n, next |-> now + ev.n]
    /\ \A u \in Tenants \ {ev.t} : jobs[u].period # ev.n /\ jobs[u].next > now

\* C8 (Spec): after startup the scheduler holds a job for exactly the
\* guilds the store knows.
C8_OneJobPerTenant ==
    started => DOMAIN jobs = DOMAIN configs

\* C9 (SpecFetch): a failure on one entry (no title, no link, a translate
\* request failing) drops that entry only: the entries already translated
\* are in the list the call returns.
C9_EntryFailureDropsOnlyThatEntry ==
    (fc.pc = "done" /\ fc.cause \in {"title", "link", "translate"})
        => (fc.result = "entries" /\ fc.out = fc.acc)

\* C10 (SpecFetch): a fetch failure of any kind is retried: the call gives
\* up on the url only after its third attempt.
C10_EveryFetchFailureRetried ==
    (fc.pc = "done" /\ fc.cause \in {"http", "parse"})
        => fc.attempt = stop_after_attempt

----------------------------------------------------------------------------
(* The store (SpecStore) *)

FileOf(config) == [parses |-> TRUE, keys_ok |-> TRUE, config |-> config]
Malformed(file) == ~file.parses \/ ~file.keys_ok
NoDuplicates(s) == \A i, j \in 1..Len(s) : s[i] = s[j] => i = j

Mutators == {"add_rss_source", "remove_rss_source",
             "ConfigHandler.set_channel", "set_target_language",
             "ConfigHandler.set_interval"}

\* the step just taken left guild t with a record other than the one it
\* had, or than the default one it was created with
RecordChanged(t) ==
    IF t \in DOMAIN configs THEN configs'[t] # configs[t]
    ELSE configs'[t] # create_default_config

\* the step just taken left guild t's file holding its record, flag clear
WrittenThrough(t) ==
    /\ t \in DOMAIN disk'
    /\ disk'[t] = FileOf(configs'[t])
    /\ ~dirty_flags'[t]

\* C11 as stated (SpecStore): a mutator that changes the record returns
\* True and leaves the file equal to the record with the flag clear; an
\* add of a url already listed, or a remove of one not listed, returns
\* False, changes nothing in memory and writes nothing.
C11_NoOpChangesNothing ==
    [][\A t \in Tenants :
          (ev'.t = t /\ ev'.kind \in Mutators)
            => /\ RecordChanged(t) => (ev'.ok /\ WrittenThrough(t))
               /\ ~ev'.ok => /\ configs' = configs
                             /\ dirty_flags' = dirty_flags
                             /\ disk' = disk]_vars

\* C11 amended (SpecStore): a mutator that changes the record returns True
\* and leaves the file equal to the record with the flag clear; an add of
\* a url already listed, or a remove of one not listed, returns False and
\* writes nothing; it leaves the memory as it was when the guild has a
\* record, and otherwise it leaves the guild with the default record,
\* marked dirty, that get_config created.
C11_MutatorsWriteThrough ==
    [][\A t \in Tenants :
          (ev'.t = t /\ ev'.kind \in Mutators)
            => /\ RecordChanged(t) => (ev'.ok /\ WrittenThrough(t))
               /\ ~ev'.ok
                    => /\ disk' = disk
                       /\ ev'.kind \in {"add_rss_source", "remove_rss_source"}
                       /\ IF t \in DOMAIN configs
                          THEN configs' = configs /\ dirty_flags' = dirty_flags
                          ELSE /\ configs' = (t :> create_default_config) @@ configs
                               /\ dirty_flags' = (t :> TRUE) @@ dirty_flags]_vars

\* a guild without file or record was asked to remove a url it does not
\* list: it now has a dirty record and still no file; the other guild's
\* added url is in its record and in its file
C11_Witness ==
    /\ ev.kind = "remove_rss_source"
    /\ ~ev.ok
    /\ ev.t \in DOMAIN configs
    /\ ev.t \notin DOMAIN disk
    /\ dirty_flags[ev.t]
    /\ \E u \in DOMAIN configs \ {ev.t} :
          /\ InSeq("C", configs[u].rss_sources)
          /\ disk[u] = FileOf(configs[u])
          /\ ~dirty_flags[u]

\* C17 (SpecStore): once ConfigHandler() has loaded the files, a file that
\* does not parse or lacks a required key has given no record and every
\* other file has given its record; and a get_config of a guild whose file
\* was so skipped gives the default feeds, "zh", 60, no channel and an
\* empty ledger, with the guild's flag set.
C17_MalformedSkipped ==
    /\ ev.kind = "init"
         => \A t \in DOMAIN disk :
               IF Malformed(disk[t]) THEN t \notin DOMAIN configs
               ELSE /\ t \in DOMAIN configs
                    /\ configs[t] = disk[t].config
                    /\ ~dirty_flags[t]
    /\ (ev.kind = "get_config" /\ ev.t \in DOMAIN disk /\ Malformed(disk[ev.t]))
         => /\ configs[ev.t] = [rss_sources       |-> DEFAULT_RSS_FEEDS,
                                channel_id        |-> None,
                                processed_entries |-> <<>>,
                                target_language   |-> "zh",
                                interval          |-> 60]
            /\ dirty_flags[ev.t]

\* get_config was called for a guild whose file does not parse, while the
\* other guild has the record of its file
C17_Witness ==
    /\ ev.kind = "get_config"
    /\ ev.t \in DOMAIN disk
    /\ ~disk[ev.t].parses
    /\ ev.t \in DOMAIN configs
    /\ \E u \in DOMAIN disk \ {ev.t} :
          /\ ~Malformed(disk[u])
          /\ u \in DOMAIN configs
          /\ configs[u] = disk[u].config

\* C19 (SpecStore): whatever add_rss_source and remove_rss_source calls
\* were made, no guild's feed list holds a url twice, and a successful
\* remove_rss_source(u) leaves no occurrence of u in the list.
C19_FeedsUnique ==
    /\ \A t \in DOMAIN configs : NoDuplicates(configs[t].rss_sources)
    /\ (ev.kind = "remove_rss_source" /\ ev.ok)
         => ~InSeq(ev.s, configs[ev.t].rss_sources)

\* a guild created by get_config (it has the default language and interval)
\* had a url added, a default url removed and added again, and the added
\* url removed
C19_Witness ==
    /\ ev.kind = "remove_rss_source"
    /\ ev.ok
    /\ ev.s = "C"
    /\ configs[ev.t].rss_sources = <<"B", "A">>
    /\ configs[ev.t].interval = 60
    /\ configs[ev.t].target_language = "zh"

\* C20 (SpecStore): every guild's interval is a positive integer, that of
\* a record loaded from its file at startup included.
C20_IntervalPositive ==
    \A t \in DOMAIN configs : configs[t].interval > 0

----------------------------------------------------------------------------
(* The message (SpecFormat) *)

Min(a, b) == IF a < b THEN a ELSE b

\* C18 (SpecFormat): the summary in the message has min(len, 1024)
\* characters: a summary of at most 1024 characters is put in unchanged, a
\* longer one is replaced by its first 1021 characters followed by "...".
C18_SummaryTruncated ==
    fm.pc = "done"
      => /\ Len(fm.value) = Min(Len(fm.summary), 1024)
         /\ Len(fm.summary) <= 1024 => fm.value = fm.summary
         /\ Len(fm.summary) > 1024
              => /\ \A i \in 1..1021 : fm.value[i] = fm.summary[i]
                 /\ \A i \in 1022..1024 : fm.value[i] = "."

\* a summary of 1200 characters was formatted to 1024
C18_Witness ==
    /\ fm.pc = "done"
    /\ Len(fm.summary) = 1200
    /\ Len(fm.value) = 1024
    /\ fm.value[1021] = "x"

----------------------------------------------------------------------------
(* The cycle and the scheduler (Spec) *)

RunKinds == {"attempt_failed", "cycle_failed", "cycle_returned"}

\* C12 (Spec): a run of process_and_send_rss for a guild with no channel
\* configured returns at once and changes nothing: no fetch and no
\* translation is started (use_google as it was), the run is not retried,
\* and the records in memory (the ledgers) and the files are as before.
C12_NoChannelNoOp ==
    [][\A t \in Tenants :
          (ev'.t = t /\ ev'.kind \in RunKinds
           /\ (t \in DOMAIN configs => configs[t].channel_id = None))
            => /\ ev'.kind = "cycle_returned"
               /\ ~ev'.ok
               /\ t \in DOMAIN configs
               /\ configs' = configs
               /\ dirty_flags' = dirty_flags
               /\ disk' = disk
               /\ use_google' = use_google
               /\ fc' = fc
               /\ inflight'[t] = <<>>]_vars

\* the job of a guild that has feeds and no channel ran and returned
C12_Witness ==
    /\ ev.kind = "cycle_returned"
    /\ ev.t \in DOMAIN configs
    /\ configs[ev.t].channel_id = None
    /\ configs[ev.t].rss_sources # <<>>
    /\ inflight[ev.t] = <<>>

\* C14 (SpecLive): a cycle that fails (its third attempt raised) leaves the
\* guild's job in the scheduler, and the job fires again: unless its next
\* run lies beyond MaxTime, the trigger comes and starts a new cycle.
C14_FailedCycleFiresAgain ==
    /\ [](ev.kind = "cycle_failed" => ev.t \in DOMAIN jobs)
    /\ \A t \in Tenants :
          (/\ ev.kind = "cycle_failed"
           /\ ev.t = t
           /\ t \in DOMAIN jobs => jobs[t].next <= MaxTime)
            ~> (\/ ev.kind = "trigger" /\ ev.t = t /\ ev.ok
                \/ t \in DOMAIN jobs /\ jobs[t].next > MaxTime)

\* a guild's cycle has just failed, and its job is there with a next run
\* that the clock reaches
C14_Witness ==
    /\ ev.kind = "cycle_failed"
    /\ ev.t \in DOMAIN jobs
    /\ jobs[ev.t].next <= MaxTime
    /\ inflight[ev.t] = <<>>

\* C15 (Spec): once a shutdown signal has been received (running is
\* False), no trigger starts a new cycle.
C15_NoCycleStartsAfterSignal ==
    (ev.kind = "trigger" /\ ev.ok) => running

\* the step just taken is a command on guild t that the store applied
CommandEffect(t) ==
    /\ (ev'.kind = "add_rss" /\ ev'.ok)
         => InSeq(ev'.s, configs'[t].rss_sources)
    /\ (ev'.kind = "remove_rss" /\ ev'.ok)
         => ~InSeq(ev'.s, configs'[t].rss_sources)
    /\ ev'.kind = "set_channel" => configs'[t].channel_id = ev'.n
    /\ (ev'.kind = "set_language" /\ ev'.ok)
         => configs'[t].target_language = ev'.s
    /\ (ev'.kind = "set_interval" /\ ev'.n > 0)
         => configs'[t].interval = ev'.n
    /\ ((ev'.kind \in {"add_rss", "remove_rss", "set_language"} /\ ev'.ok)
        \/ ev'.kind = "set_channel"
        \/ (ev'.kind = "set_interval" /\ ev'.n > 0))
         => (t \in DOMAIN disk' /\ disk'[t] = FileOf(configs'[t]))

\* C16 (Spec): however the commands on a guild interleave with the guild's
\* cycle (a command runs before, between or after the cycle's attempts),
\* no update is lost: a command's effect is in the record and in the file
\* when the command ends, an attempt of the cycle alters neither the
\* record nor any file, no step drops a ledger record, and every record
\* whose flag is clear equals its file.
C16_NoLostUpdate ==
    [][\A t \in Tenants :
          /\ ev'.t = t => CommandEffect(t)
          /\ (ev'.t = t /\ ev'.kind \in RunKinds)
               => (t \in DOMAIN configs /\ configs' = configs /\ disk' = disk)
          /\ t \in DOMAIN configs
               => configs'[t].processed_entries = configs[t].processed_entries
          /\ (t \in DOMAIN configs' /\ ~dirty_flags'[t])
               => (t \in DOMAIN disk' /\ disk'[t] = FileOf(configs'[t]))]_vars

\* a url was added to a guild while the guild's cycle was between two of
\* its attempts; record and file hold it, and the ledger is as loaded
C16_Witness ==
    /\ ev.kind = "add_rss"
    /\ ev.ok
    /\ inflight[ev.t] # <<>>
    /\ inflight[ev.t][1] >= 2
    /\ InSeq(ev.s, configs[ev.t].rss_sources)
    /\ disk[ev.t] = FileOf(configs[ev.t])
    /\ configs[ev.t].processed_entries # <<>>

----------------------------------------------------------------------------
(* The translator (SpecFetch) *)

TranslateKinds == {"translate_failed", "translate_retry", "translate_ok"}

\* C21 (SpecFetch): an attempt of translate invokes one provider, the one
\* use_google designates when the attempt starts; a failing attempt flips
\* the flag and raises without invoking the other provider, a succeeding
\* one leaves the flag; a request makes one invocation per attempt, three
\* at most, and each invocation after a failed one goes to the provider
\* the failed one did not use.
C21_OneProviderPerAttempt ==
    [][ev'.kind \in TranslateKinds
         => /\ ev'.s = Provider(use_google)
            /\ ev'.n = fc.tr.attempt
            /\ ev'.n <= 3
            /\ Len(fc.tr.calls) = fc.tr.attempt - 1
            /\ fc.tr.calls # <<>> => ev'.s # fc.tr.calls[Len(fc.tr.calls)]
            /\ ev'.ok => use_google' = use_google
            /\ ~ev'.ok => /\ use_google' = ~use_google
                          /\ fc'.tr.calls = Append(fc.tr.calls, ev'.s)]_vars

\* a request that started on Google failed three times: it invoked Google,
\* DeepL and Google, and the flag is left on DeepL
C21_Witness ==
    /\ ev.kind = "translate_failed"
    /\ fc.tr.calls = <<"google", "deepl", "google">>
    /\ ~use_google

----------------------------------------------------------------------------
(* The runs of a job (Spec) *)

\* C22 (Spec): a trigger that starts a run executes process_and_send_rss
\* once, also when it fails: every execution of its body is the first
\* one since the trigger.
C22_OneRunPerTrigger ==
    ev.kind \in RunKinds => ev.n = 1

----------------------------------------------------------------------------
(* The pruning pass (SpecClean) *)

\* C24 (SpecClean): clean_old_entries leaves exactly the records whose age
\* is at most ENTRY_LIFETIME (7 days), in their order: the older ones are
\* gone and one aged exactly 7 days is kept.
C24_PrunesExactlyOlderThanLifetime ==
    [][\A t \in DOMAIN configs :
          (ev'.t = t
           /\ ev'.kind \in {"clean_old_entries", "simple_clean_old_entries"})
            => configs'[t].processed_entries =
                  SelectSeq(configs[t].processed_entries,
                            LAMBDA entry : now - entry.timestamp <= ENTRY_LIFETIME)]_vars

----------------------------------------------------------------------------
(* The interval and the job (Spec) *)

\* C26 (Spec): the period of every job equals the interval stored for its
\* guild, and set_interval changes both or neither: when it has stored and
\* saved the interval, the guild has a job and the job has that period.
C26_PeriodEqualsInterval ==
    /\ \A t \in DOMAIN jobs :
          t \in DOMAIN configs /\ jobs[t].period = configs[t].interval
    /\ (/\ ev.kind = "set_interval"
        /\ ev.n > 0
        /\ ev.t \in DOMAIN disk
        /\ disk[ev.t].parses
        /\ disk[ev.t].config.interval = ev.n)
         => (ev.t \in DOMAIN jobs /\ jobs[ev.t].period = ev.n)

====
